---- MODULE Spec2Model ----
(***************************************************************************)
(* spicat: a command line tool performing full-duplex SPI transactions.    *)
(* The module models src/main.rs: main, do_main and the enum helpers.      *)
(* One action per statement of do_main that talks to the outside world     *)
(* (the spidev handle, the input, the output); every such call may succeed *)
(* or fail, as chosen by the environment.                                  *)
(*                                                                         *)
(* Bytes are integers 0..255; text written to the output is modelled as    *)
(* the sequence of its ASCII codes (32 = space, 10 = newline).             *)
(***************************************************************************)
EXTENDS Integers, Sequences, FiniteSets, TLC

\* ----------------------------------------------------------------- bounds
\* Largest --repeat explored, and longest input message explored.
MaxRepeat == 2
MaxLen == 2
\* The same two bounds for the start-up specification (all bus settings).
StartupMaxRepeat == 1
StartupMaxLen == 2
\* Longest capture explored by the rendering specification.
RenderMaxLen == 2

None == "None"
\* Option<u16>: the empty sequence for None, <<v>> for Some(v).
Some(v) == <<v>>
Absent == <<>>

\* The bytes of the input message: the first n bytes of "ABCDEFGH".
Message == <<65, 66, 67, 68, 69, 70, 71, 72>>
Payloads(n) == { SubSeq(Message, 1, k) : k \in 0..n }

\* Content of the file named by --out before the run.
OldContent == <<111, 108, 100>>

\* All byte sequences of length n over the set S.
SeqsOfLen(S, n) == [1..n -> S]

\* ------------------------------------------------------------ enum helpers
SpiModes == {0, 1, 2, 3}
ChipSelects == {"ActiveLow", "ActiveHigh", "Disabled"}
OutputFormats == {"Decimal", "Hexadecimal", "Raw"}

\* SpiMode::flags: SPI_MODE_0..3 as sets of the mode bits CPHA and CPOL.
SpiMode_flags(m) ==
    CASE m = 0 -> {}
      [] m = 1 -> {"SPI_CPHA"}
      [] m = 2 -> {"SPI_CPOL"}
      [] m = 3 -> {"SPI_CPHA", "SPI_CPOL"}

\* ChipSelect::flags
ChipSelect_flags(cs) ==
    CASE cs = "ActiveLow"  -> {}
      [] cs = "ActiveHigh" -> {"SPI_CS_HIGH"}
      [] cs = "Disabled"   -> {"SPI_NO_CS"}

\* impl Display for ChipSelect
ChipSelect_fmt(cs) ==
    CASE cs = "ActiveLow"  -> "active-low"
      [] cs = "ActiveHigh" -> "active-high"
      [] cs = "Disabled"   -> "disabled"

\* ------------------------------------------------------------------ state
VARIABLES
    options,    \* the parsed command line (struct Options)
    tty,        \* environment: isatty(output_fd) would answer TRUE now
    device,     \* environment: the bytes the SPI peer may clock back
    fds,        \* environment: how the descriptors behind output and stderr
                \* take writes
    input_data, \* environment: the bytes the input will deliver
    pc,         \* position of do_main / main
    spi,        \* the spidev handle: open flag and the settings in effect
    tx_buf,     \* the message read from the input
    rx_buf,     \* the receive buffer, reused by every iteration
    format,     \* the resolved output format (None before resolution)
    i,          \* completed iterations of the repeat loop
    j,          \* 1-based index of the next byte to print (hex / decimal)
    sink,       \* every byte delivered so far to the output's destination
    obuf,       \* the bytes held in the buffer of std's stdout (output "-")
    fdlog,      \* history: every write on the output's descriptor
    stderr,     \* what reached stderr, piece by piece
    outfile,    \* content of the file named by --out
    result,     \* what do_main returned (None while it runs)
    exit_code,  \* the process exit code (None while it runs)
    log,        \* history: every call made to the outside, in order
    bus         \* history: every transfer message submitted to the bus

vars == <<options, tty, device, fds, input_data, pc, spi, tx_buf, rx_buf, format, i, j,
          sink, obuf, fdlog, stderr, outfile, result, exit_code, log, bus>>

Ok == [ok |-> TRUE, msg |-> "", arg |-> None]
Err(m, a) == [ok |-> FALSE, msg |-> m, arg |-> a]

Event(op, ok) == [op |-> op, ok |-> ok]

\* The settings of a spidev node before spicat touches it.
DeviceDefaults == [bits_per_word |-> 8, max_speed_hz |-> 250000, mode |-> {}]
DeviceStale == [bits_per_word |-> 32, max_speed_hz |-> 250000,
                mode |-> {"SPI_CPHA", "SPI_CPOL", "SPI_NO_CS"}]

\* How a descriptor takes writes: "writable" accepts them or fails them with
\* an error; "readonly" is open but not for writing, every write(2) on it
\* fails with EBADF; "any" leaves open which of these each write meets.
FdKinds == {"writable", "readonly", "any"}

\* The descriptors of a run: a file created by File::create is open for
\* writing.
Descriptors(outKinds, errKinds, o) ==
    { d \in [output : outKinds \cap FdKinds, stderr : errKinds \cap FdKinds] :
        o.output # "-" => d.output # "readonly" }

InitWith(optionSet, inputSet, ttySet, deviceSet, settingsSet, outKinds, errKinds) ==
    /\ options \in optionSet
    /\ fds \in Descriptors(outKinds, errKinds, options)
    /\ input_data \in inputSet
    /\ tty \in ttySet
    /\ device \in deviceSet
    /\ spi \in { [open |-> FALSE, settings |-> s] : s \in settingsSet }
    /\ pc = "open_spi"
    /\ tx_buf = <<>>
    /\ rx_buf = <<>>
    /\ format = None
    /\ i = 0
    /\ j = 1
    /\ sink = <<>>
    /\ obuf = <<>>
    /\ fdlog = <<>>
    /\ stderr = <<>>
    /\ outfile = OldContent
    /\ result = None
    /\ exit_code = None
    /\ log = <<>>
    /\ bus = <<>>

\* Variant of NextStep: the input is read before the output is created.
NextStepReadBeforeCreate(p) ==
    CASE p = "open_spi"       -> "cfg_bits"
      [] p = "cfg_bits"       -> "cfg_speed"
      [] p = "cfg_speed"      -> "cfg_mode"
      [] p = "cfg_mode"       -> "cfg_cs"
      [] p = "cfg_cs"         -> "open_input"
      [] p = "open_input"     -> "read_input"
      [] p = "read_input"     -> "create_output"
      [] p = "create_output"  -> "alloc_rx"
      [] p = "alloc_rx"       -> "resolve_format"
      [] p = "resolve_format" -> "loop"

\* --------------------------------------------------------- start-up steps
\* The statements of do_main before the repeat loop, in program order.
NextStep(p) ==
    CASE p = "open_spi"       -> "cfg_bits"
      [] p = "cfg_bits"       -> "cfg_speed"
      [] p = "cfg_speed"      -> "cfg_mode"
      [] p = "cfg_mode"       -> "cfg_cs"
      [] p = "cfg_cs"         -> "open_input"
      [] p = "open_input"     -> "create_output"
      [] p = "create_output"  -> "read_input"
      [] p = "read_input"     -> "alloc_rx"
      [] p = "alloc_rx"       -> "resolve_format"
      [] p = "resolve_format" -> "loop"

\* `call(..).map_err(|e| format!(..))?`: log the call; on failure return the
\* formatted error, otherwise go on with the next statement.
Advance(op, ok, e) ==
    /\ log' = Append(log, Event(op, ok))
    /\ pc' = IF ok THEN NextStep(pc) ELSE "return"
    /\ result' = IF ok THEN result ELSE e

\* Variant of CfgSpeedError: the message interpolates the wrong option.
CfgSpeedErrorWrongValue(o) == Err("Failed to max speed to {} Hz: {}", o.bits_per_word)

\* The error strings of do_main, with the value each one interpolates.
OpenSpiError(o)   == Err("Failed to open spidev {}: {}", o.spidev)
CfgBitsError(o)   == Err("Failed to set {} bits per word: {}", o.bits_per_word)
CfgSpeedError(o)  == Err("Failed to max speed to {} Hz: {}", o.speed)
CfgModeError(o)   == Err("Failed to set SPI mode to {}: {}", o.mode)
CfgCsError(o)     == Err("Failed to set chip select mode to {}: {}",
                         ChipSelect_fmt(o.chip_select))
OpenInputError(o) == Err("Failed to open input file {}: {}", o.input)
CreateOutputError(o) == Err("Failed to create output file {}: {}", o.output)
ReadInputError    == Err("Failed to read input message: {}", None)
TransferError     == Err("SPI transaction failed: {}", None)
WriteError        == Err("Failed to write to output stream: {}", None)

\* Spidev::configure with one option set: the option is written to the
\* device. A mode write (SPI_IOC_WR_MODE) stores the whole mode word: the
\* flags given replace every mode flag of the handle.
Configure_bits_per_word(s, bits) == [s EXCEPT !.bits_per_word = bits]
Configure_max_speed_hz(s, hz)    == [s EXCEPT !.max_speed_hz = hz]
Configure_mode(s, flags)         == [s EXCEPT !.mode = flags]

Startup == <<tx_buf, rx_buf, format, i, j, sink, obuf, fdlog, stderr, outfile, exit_code, bus,
             options, device, fds, input_data, tty>>

OpenSpi ==
    /\ pc = "open_spi"
    /\ \E ok \in BOOLEAN :
        /\ Advance("open_spi", ok, OpenSpiError(options))
        /\ spi' = [spi EXCEPT !.open = ok]
    /\ UNCHANGED Startup

ConfigureBits ==
    /\ pc = "cfg_bits"
    /\ \E ok \in BOOLEAN :
        /\ Advance("cfg_bits", ok, CfgBitsError(options))
        /\ spi' = IF ok
                  THEN [spi EXCEPT !.settings =
                          Configure_bits_per_word(@, options.bits_per_word)]
                  ELSE spi
    /\ UNCHANGED Startup

ConfigureSpeed ==
    /\ pc = "cfg_speed"
    /\ \E ok \in BOOLEAN :
        /\ Advance("cfg_speed", ok, CfgSpeedError(options))
        /\ spi' = IF ok
                  THEN [spi EXCEPT !.settings =
                          Configure_max_speed_hz(@, options.speed)]
                  ELSE spi
    /\ UNCHANGED Startup

ConfigureMode ==
    /\ pc = "cfg_mode"
    /\ \E ok \in BOOLEAN :
        /\ Advance("cfg_mode", ok, CfgModeError(options))
        /\ spi' = IF ok
                  THEN [spi EXCEPT !.settings =
                          Configure_mode(@, SpiMode_flags(options.mode))]
                  ELSE spi
    /\ UNCHANGED Startup

ConfigureChipSelect ==
    /\ pc = "cfg_cs"
    /\ \E ok \in BOOLEAN :
        /\ Advance("cfg_cs", ok, CfgCsError(options))
        /\ spi' = IF ok
                  THEN [spi EXCEPT !.settings =
                          Configure_mode(@, ChipSelect_flags(options.chip_select))]
                  ELSE spi
    /\ UNCHANGED Startup

\* input: "-" locks stdin (cannot fail), otherwise File::open.
OpenInput ==
    /\ pc = "open_input"
    /\ \E ok \in (IF options.input = "-" THEN {TRUE} ELSE BOOLEAN) :
        Advance(IF options.input = "-" THEN "lock_stdin" ELSE "open_input",
                ok, OpenInputError(options))
    /\ UNCHANGED <<spi, Startup>>

\* output: "-" locks stdout (cannot fail), otherwise File::create, which
\* creates the file or truncates an existing one.
CreateOutput ==
    /\ pc = "create_output"
    /\ \E ok \in (IF options.output = "-" THEN {TRUE} ELSE BOOLEAN) :
        /\ Advance(IF options.output = "-" THEN "lock_stdout" ELSE "create_output",
                   ok, CreateOutputError(options))
        /\ outfile' = IF ok /\ options.output # "-" THEN <<>> ELSE outfile
    /\ UNCHANGED <<spi, tx_buf, rx_buf, format, i, j, sink, obuf, fdlog, stderr,
                   exit_code, bus,
                   options, device, fds, input_data, tty>>

\* input.read_to_end(&mut tx_buf)
ReadInput ==
    /\ pc = "read_input"
    /\ \E ok \in BOOLEAN :
        /\ Advance("read_input", ok, ReadInputError)
        /\ tx_buf' = IF ok THEN input_data ELSE tx_buf
    /\ UNCHANGED <<spi, rx_buf, format, i, j, sink, obuf, fdlog, stderr, outfile, exit_code, bus,
                   options, device, fds, input_data, tty>>

\* rx_buf.resize(tx_buf.len(), 0u8)
Zeros(n) == [k \in 1..n |-> 0]

AllocRx ==
    /\ pc = "alloc_rx"
    /\ rx_buf' = Zeros(Len(tx_buf))
    /\ pc' = NextStep(pc)
    /\ UNCHANGED <<spi, tx_buf, format, i, j, sink, obuf, fdlog, stderr, outfile, exit_code, bus,
                   options, device, fds, input_data, tty, result, log>>

\* Variant of ResolveFormat: the destination alone decides.
ResolveFormatIgnoreExplicit(explicit, isatty) ==
    IF isatty THEN "Hexadecimal" ELSE "Raw"

\* options.format.unwrap_or_else(|| if isatty(output_fd) { Hex } else { Raw })
ResolveFormat(explicit, isatty) ==
    IF explicit # None THEN explicit
    ELSE IF isatty THEN "Hexadecimal" ELSE "Raw"

\* isatty is only called when no --format was given; the log keeps its answer.
ResolveOutputFormat ==
    /\ pc = "resolve_format"
    /\ format' = ResolveFormat(options.format, tty)
    /\ log' = IF options.format = None THEN Append(log, Event("isatty", tty))
              ELSE log
    /\ pc' = NextStep(pc)
    /\ UNCHANGED <<spi, tx_buf, rx_buf, i, j, sink, obuf, fdlog, stderr, outfile, exit_code, bus,
                   options, device, fds, input_data, tty, result>>

\* ---------------------------------------------------------- transfer plan
\* SpidevTransfer::write / ::read_write of the spidev crate, in the form used
\* here (constructors borrowing the buffers): the struct is zero-initialised,
\* so every field the constructor is not given is zero (speed_hz,
\* delay_usecs, bits_per_word, cs_change). read_write requires both buffers
\* to have the same length; rx_buf is resized to tx_buf's, so they do.
SpidevTransfer_write(buf) ==
    [tx_buf |-> buf, has_rx |-> FALSE, rx_len |-> 0, len |-> Len(buf),
     speed_hz |-> 0, delay_usecs |-> 0, bits_per_word |-> 0, cs_change |-> 0]

SpidevTransfer_read_write(tx, rx) ==
    [tx_buf |-> tx, has_rx |-> TRUE, rx_len |-> Len(rx), len |-> Len(tx),
     speed_hz |-> 0, delay_usecs |-> 0, bits_per_word |-> 0, cs_change |-> 0]

\* Variant of TransferPlan: the dummy write is left at the speed default.
TransferPlanNoSpeed(o, tx, rx) ==
    IF o.pre_delay # Absent
    THEN << [SpidevTransfer_write(<<>>) EXCEPT !.cs_change = 0,
                                               !.delay_usecs = o.pre_delay[1]],
            [SpidevTransfer_read_write(tx, rx) EXCEPT !.speed_hz = o.speed] >>
    ELSE << [SpidevTransfer_read_write(tx, rx) EXCEPT !.speed_hz = o.speed] >>

\* The transfers one iteration submits: with a pre-delay a dummy write
\* followed by the real transfer, otherwise the real transfer alone.
TransferPlan(o, tx, rx) ==
    IF o.pre_delay # Absent
    THEN << [SpidevTransfer_write(<<>>) EXCEPT !.cs_change = 0,
                                               !.delay_usecs = o.pre_delay[1],
                                               !.speed_hz = o.speed],
            [SpidevTransfer_read_write(tx, rx) EXCEPT !.speed_hz = o.speed] >>
    ELSE << [SpidevTransfer_read_write(tx, rx) EXCEPT !.speed_hz = o.speed] >>

\* spi.transfer_multiple(&mut transfers) or spi.transfer(&mut transfer)
TransferCall(o) == IF o.pre_delay # Absent THEN "transfer_multiple" ELSE "transfer"

\* Variant of RxAfterTransfer: only a still-zeroed buffer takes the capture,
\* so later iterations keep showing the first one.
RxKeepsEarlierCapture(old, captured) ==
    IF old = [k \in 1..Len(old) |-> 0] THEN captured ELSE old

\* A successful transfer stores one captured byte per transmitted byte into
\* rx_buf, from its start: nothing of the previous content is left.
RxAfterTransfer(old, captured) == captured

\* First statement of `match format` for a capture of n bytes.
PrintEntry(fmt, n) ==
    IF fmt = "Raw" THEN "write_raw"
    ELSE IF n = 0 THEN "write_nl" ELSE "write_byte"

\* Variant of AfterTransfer: the result of the transfer is not looked at.
AfterTransferIgnoreError(ok, fmt, n) == PrintEntry(fmt, n)

\* `.map_err(..)?` after the transfer: an error returns from do_main.
AfterTransfer(ok, fmt, n) == IF ok THEN PrintEntry(fmt, n) ELSE "return"

LoopEnter ==
    /\ pc = "loop"
    /\ i < options.repeat
    /\ pc' = "transfer"
    /\ UNCHANGED <<options, tty, device, fds, input_data, spi, tx_buf, rx_buf, format,
                   i, j, sink, obuf, fdlog, stderr, outfile, result, exit_code, log, bus>>

\* The loop is over: Ok(())
LoopExit ==
    /\ pc = "loop"
    /\ i >= options.repeat
    /\ result' = Ok
    /\ pc' = "return"
    /\ UNCHANGED <<options, tty, device, fds, input_data, spi, tx_buf, rx_buf, format,
                   i, j, sink, obuf, fdlog, stderr, outfile, exit_code, log, bus>>

Transfer ==
    /\ pc = "transfer"
    /\ LET plan == TransferPlan(options, tx_buf, rx_buf)
           n == plan[Len(plan)].len
       IN \E ok \in BOOLEAN :
            \E captured \in (IF ok THEN SeqsOfLen(device, n) ELSE { <<>> }) :
              /\ bus' = Append(bus, [call |-> TransferCall(options),
                                     plan |-> plan,
                                     settings |-> spi.settings,
                                     ok |-> ok,
                                     rx |-> captured,
                                     at |-> Len(sink)])
              /\ log' = Append(log, Event("transfer", ok))
              /\ rx_buf' = IF ok THEN RxAfterTransfer(rx_buf, captured) ELSE rx_buf
              /\ pc' = AfterTransfer(ok, format, Len(rx_buf'))
              /\ result' = IF pc' = "return" THEN TransferError ELSE result
    /\ j' = 1
    /\ UNCHANGED <<options, tty, device, fds, input_data, spi, tx_buf, format, i,
                   sink, obuf, fdlog, stderr, outfile, exit_code>>

\* ----------------------------------------------------------------- output
\* Variant of HexDigit: lower-case digits, as "{:02x}" gives.
HexDigitLower(d) == IF d < 10 THEN 48 + d ELSE 87 + d

\* "{:X}": the upper-case hexadecimal digits of a u8, without leading zeros.
HexDigit(d) == IF d < 10 THEN 48 + d ELSE 55 + d
HexDigits(b) ==
    IF b >= 16 THEN << HexDigit(b \div 16), HexDigit(b % 16) >> ELSE << HexDigit(b) >>

\* The write_all calls one write!(output, "{:02X}", byte) makes on output:
\* the formatter writes every pad character '0' by itself, then the digits.
FmtHexCalls(b) == [k \in 1..(2 - Len(HexDigits(b))) |-> << 48 >>] \o << HexDigits(b) >>

\* All the bytes of the calls, in order.
RECURSIVE Concat(_)
Concat(calls) == IF calls = << >> THEN << >> ELSE Head(calls) \o Concat(Tail(calls))

\* "{:02X}": two upper-case hexadecimal digits.
FmtHex(b) == Concat(FmtHexCalls(b))

\* "{}" of a u8: the decimal digits, most significant first.
FmtDec(b) ==
    IF b >= 100 THEN << 48 + (b \div 100), 48 + ((b \div 10) % 10), 48 + (b % 10) >>
    ELSE IF b >= 10 THEN << 48 + (b \div 10), 48 + (b % 10) >>
    ELSE << 48 + b >>

FmtByte(fmt, b) == IF fmt = "Hexadecimal" THEN FmtHex(b) ELSE FmtDec(b)

\* The write_all calls of the write! of one byte: "{}" writes its digits in
\* one call.
FmtByteCalls(fmt, b) == IF fmt = "Hexadecimal" THEN FmtHexCalls(b) ELSE << FmtDec(b) >>

\* `if i != 0` of the byte loops (i is 0-based there, k is 1-based here).
NeedSep(k) == k # 1

\* ------------------------------------------------- the writer behind output
\* With --out FILE `output` is the File itself: every write goes straight to
\* the descriptor. With "-" it is std's locked stdout, a LineWriter over a
\* BufWriter: bytes are kept in a buffer and go to the descriptor when a
\* newline is written, when the buffer cannot take more, or when the runtime
\* flushes at exit.
\* Capacity of the buffer of std's stdout.
StdoutBufSize == 1024

\* write_all on the descriptor: nothing to write makes no call; otherwise
\* all of data is accepted, or the call fails after some proper prefix.
FdWriteAll(data) ==
    IF data = <<>> THEN { [ok |-> TRUE, out |-> <<>>, ev |-> <<>>] }
    ELSE { [ok |-> TRUE, out |-> data, ev |-> <<"ok">>] } \cup
         { [ok |-> FALSE, out |-> SubSeq(data, 1, k), ev |-> <<"failed">>] :
             k \in 0..(Len(data) - 1) }

\* std's handle_ebadf around the writes on descriptor 1: when the descriptor
\* is not open for writing the write fails with EBADF, and std reports
\* success; the bytes are dropped.
HandleEbadf(data) ==
    IF data = <<>> THEN { }
    ELSE { [ok |-> TRUE, out |-> <<>>, ev |-> <<"swallowed">>] }

\* A write of std's raw stdout on descriptor 1.
StdoutRaw_write_all(data) ==
    IF data = <<>> THEN FdWriteAll(data)
    ELSE (IF fds.output # "readonly" THEN FdWriteAll(data) ELSE { }) \cup
         (IF fds.output # "writable" THEN HandleEbadf(data) ELSE { })

\* The possible outcomes of an operation on the writer: its result, the
\* buffer afterwards, the bytes that reached the descriptor, and the outcome
\* of each descriptor write made.
Keep(buf) == { [ok |-> TRUE, buf |-> buf, out |-> <<>>, ev |-> <<>>] }

\* File::write_all(data): the file has no buffer and no handle_ebadf.
File_write_all(buf, data) ==
    { [ok |-> w.ok, buf |-> buf, out |-> w.out, ev |-> w.ev] : w \in FdWriteAll(data) }

\* inner.write_all(data) of stdout, past the buffer
Direct(buf, data) ==
    { [ok |-> w.ok, buf |-> buf, out |-> w.out, ev |-> w.ev] :
      w \in StdoutRaw_write_all(data) }

\* BufWriter::flush_buf: what was written (or dropped by handle_ebadf)
\* leaves the buffer; after a failure the rest stays.
FlushBuf(buf) ==
    { [ok |-> w.ok,
       buf |-> IF w.ok THEN << >> ELSE SubSeq(buf, Len(w.out) + 1, Len(buf)),
       out |-> w.out, ev |-> w.ev] : w \in StdoutRaw_write_all(buf) }

\* `first?; then`: after outcome s of the first operation the second one,
\* whose outcomes on the buffer s left are given, runs unless the first failed.
AndThen(s, outcomes) ==
    IF s.ok
    THEN { [ok |-> t.ok, buf |-> t.buf, out |-> s.out \o t.out,
            ev |-> s.ev \o t.ev] : t \in outcomes }
    ELSE { s }

\* BufWriter::write_all: flush first when data does not fit, then bypass the
\* buffer for data as large as the buffer, else append.
BufWriter_write_all(buf, data) ==
    UNION { AndThen(s, IF Len(data) >= StdoutBufSize THEN Direct(s.buf, data)
                       ELSE Keep(s.buf \o data)) :
            s \in (IF Len(data) > StdoutBufSize - Len(buf) THEN FlushBuf(buf)
                   ELSE Keep(buf)) }

\* LineWriter::write_all: data without a newline is buffered (after flushing
\* a completed line still in the buffer); otherwise everything up to the last
\* newline is written out, with what was buffered, and the tail is buffered.
LineWriter_write_all(buf, data) ==
    IF \A p \in DOMAIN data : data[p] # 10
    THEN UNION { AndThen(s, BufWriter_write_all(s.buf, data)) :
                 s \in (IF buf # <<>> /\ buf[Len(buf)] = 10 THEN FlushBuf(buf)
                        ELSE Keep(buf)) }
    ELSE LET q == CHOOSE p \in DOMAIN data :
                    data[p] = 10 /\ \A r \in (p + 1)..Len(data) : data[r] # 10
             lines == SubSeq(data, 1, q)
             tail == SubSeq(data, q + 1, Len(data))
             written == IF buf = <<>> THEN Direct(buf, lines)
                        ELSE UNION { AndThen(s, FlushBuf(s.buf)) :
                                     s \in BufWriter_write_all(buf, lines) }
         IN UNION { AndThen(s, BufWriter_write_all(s.buf, tail)) : s \in written }

\* output.write_all(data), for the output chosen by --out
Output_write_all(o, buf, data) ==
    IF o.output = "-" THEN LineWriter_write_all(buf, data) ELSE File_write_all(buf, data)

\* One write!/writeln!/write_all statement on output: its write_all calls in
\* order, stopping at the first that fails.
RECURSIVE Output_write_fmt(_, _, _)
Output_write_fmt(o, buf, calls) ==
    IF calls = << >> THEN Keep(buf)
    ELSE UNION { AndThen(s, Output_write_fmt(o, s.buf, Tail(calls))) :
                 s \in Output_write_all(o, buf, Head(calls)) }

\* The descriptor writes of a step, as recorded: whether write(2) accepted
\* the bytes, whether its failure was swallowed by handle_ebadf, and whether
\* it was made by the flush at exit.
FdEvents(ev, exiting) ==
    [k \in DOMAIN ev |-> [ok |-> ev[k] = "ok", swallowed |-> ev[k] = "swallowed",
                          at_exit |-> exiting]]

\* `.map_err(..)?` after a write: an error returns from do_main.
AfterWrite(ok, next) == IF ok THEN next ELSE "return"

\* One write statement on `output`, making the given write_all calls,
\* followed by statement `next`.
Write(calls, next) ==
    \E w \in Output_write_fmt(options, obuf, calls) :
        /\ sink' = sink \o w.out
        /\ obuf' = w.buf
        /\ fdlog' = fdlog \o FdEvents(w.ev, FALSE)
        /\ outfile' = IF options.output # "-" THEN outfile \o w.out ELSE outfile
        /\ log' = Append(log, Event("write", w.ok))
        /\ pc' = AfterWrite(w.ok, next)
        /\ result' = IF pc' = "return" THEN WriteError ELSE result
        /\ i' = IF pc' = "loop" THEN i + 1 ELSE i

Printing == <<options, tty, device, fds, input_data, spi, tx_buf, rx_buf, format,
              exit_code, bus, stderr>>

\* OutputFormat::Raw => output.write_all(&rx_buf)
WriteRaw ==
    /\ pc = "write_raw"
    /\ Write(<< rx_buf >>, "loop")
    /\ UNCHANGED <<j, Printing>>

\* if i != 0 { write!(output, " ") }, for byte j
WriteSep ==
    /\ pc = "write_sep"
    /\ Write(<< <<32>> >>, "write_byte")
    /\ UNCHANGED <<j, Printing>>

\* write!(output, "{:02X}", byte) or write!(output, "{}", byte), for byte j
WriteByte ==
    /\ pc = "write_byte"
    /\ Write(FmtByteCalls(format, rx_buf[j]),
             IF j = Len(rx_buf) THEN "write_nl"
             ELSE IF NeedSep(j + 1) THEN "write_sep" ELSE "write_byte")
    /\ j' = IF pc' = "return" THEN j ELSE j + 1
    /\ UNCHANGED Printing

\* writeln!(output)
WriteNewline ==
    /\ pc = "write_nl"
    /\ Write(<< <<10>> >>, "loop")
    /\ UNCHANGED <<j, Printing>>

\* ------------------------------------------------------------------- main
\* do_main(..).unwrap_or_else(|error| { eprintln!(..); exit(1) }): Ok ends
\* the process with 0; an error is printed and ends it with 1, and when the
\* error cannot be printed eprintln! panics, which ends it with 101.
ExitCode(r, printed) == IF r.ok THEN 0 ELSE IF printed THEN 1 ELSE 101

\* eprintln!("Error: {}", error) reaches stderr, which has no buffer, as one
\* write_all per piece of the format: the literal, the message ("{}" stands
\* for the text of the error do_main returned), the newline.
StderrPieces == << "Error: ", "{}", "\n" >>

\* write_all of one piece on stderr: all of it is accepted, or the call fails
\* with nothing or (for a piece of more than one byte) a part of it delivered;
\* when descriptor 2 is not open for writing (EBADF) std's handle_ebadf
\* reports success and the piece is dropped.
StderrWriteAll(text) ==
    (IF fds.stderr = "readonly" THEN { }
     ELSE { [ok |-> TRUE, out |-> << [text |-> text, whole |-> TRUE] >>],
            [ok |-> FALSE, out |-> << >>] } \cup
          (IF text = "\n" THEN { }
           ELSE { [ok |-> FALSE, out |-> << [text |-> text, whole |-> FALSE] >>] })) \cup
    (IF fds.stderr = "writable" THEN { } ELSE { [ok |-> TRUE, out |-> << >>] })

\* The pieces in order, stopping at the first write that fails.
RECURSIVE Stderr_write_fmt(_)
Stderr_write_fmt(pieces) ==
    IF pieces = << >> THEN { [ok |-> TRUE, out |-> << >>] }
    ELSE UNION { IF s.ok
                 THEN { [ok |-> t.ok, out |-> s.out \o t.out] :
                        t \in Stderr_write_fmt(Tail(pieces)) }
                 ELSE { s } : s \in StderrWriteAll(Head(pieces)) }

\* The panic of eprintln! is reported on stderr as well, by the panic hook,
\* which ignores its own write errors: none, a part or all of the report
\* arrives.
PanicHook ==
    { << >>, << [text |-> "panicked", whole |-> FALSE] >>,
      << [text |-> "panicked", whole |-> TRUE] >> }

\* eprintln!: whether it returned (it panics on a failed write), and what
\* reached stderr.
Eprintln ==
    UNION { IF e.ok THEN { [printed |-> TRUE, out |-> e.out] }
            ELSE { [printed |-> FALSE, out |-> e.out \o h] : h \in PanicHook } :
            e \in Stderr_write_fmt(StderrPieces) }

Main ==
    /\ pc = "return"
    /\ \E e \in (IF result.ok THEN { [printed |-> FALSE, out |-> << >>] } ELSE Eprintln) :
        /\ stderr' = stderr \o e.out
        /\ exit_code' = ExitCode(result, e.printed)
    /\ pc' = "cleanup"
    /\ UNCHANGED <<options, tty, device, fds, input_data, spi, tx_buf, rx_buf, format,
                   i, j, sink, obuf, fdlog, outfile, result, log, bus>>

\* The runtime, on the way out of main or in process::exit: what std's stdout
\* still holds is written out once, and a failure of that write is dropped.
RuntimeCleanup ==
    /\ pc = "cleanup"
    /\ \E w \in FlushBuf(obuf) :
        /\ sink' = sink \o w.out
        /\ obuf' = w.buf
        /\ fdlog' = fdlog \o FdEvents(w.ev, TRUE)
    /\ pc' = "exit"
    /\ UNCHANGED <<options, tty, device, fds, input_data, spi, tx_buf, rx_buf, format,
                   i, j, stderr, outfile, result, exit_code, log, bus>>

\* Environment: the terminal behind the output goes away (hang-up), after
\* which isatty answers 0.
Hangup ==
    /\ tty
    /\ pc # "exit"
    /\ tty' = FALSE
    /\ UNCHANGED <<options, device, fds, input_data, pc, spi, tx_buf, rx_buf, format,
                   i, j, sink, obuf, fdlog, stderr, outfile, result, exit_code, log, bus>>

Next ==
    \/ OpenSpi
    \/ ConfigureBits
    \/ ConfigureSpeed
    \/ ConfigureMode
    \/ ConfigureChipSelect
    \/ OpenInput
    \/ CreateOutput
    \/ ReadInput
    \/ AllocRx
    \/ ResolveOutputFormat
    \/ LoopEnter
    \/ LoopExit
    \/ Transfer
    \/ WriteRaw
    \/ WriteSep
    \/ WriteByte
    \/ WriteNewline
    \/ Main
    \/ RuntimeCleanup
    \/ Hangup

\* --------------------------------------------------------- specifications
OptionsOf(modes, selects, widths, speeds, repeats, formats, delays, ins, outs) ==
    [spidev : {"/dev/spidev0.0"}, input : ins, output : outs, speed : speeds,
     repeat : repeats, format : formats, mode : modes, chip_select : selects,
     bits_per_word : widths, pre_delay : delays]

\* The repeat loop in depth: default bus settings; the format left to isatty
\* (hexadecimal or raw) or given (decimal); the output writable or open
\* read-only.
Init ==
    InitWith(OptionsOf({0}, {"ActiveLow"}, {8}, {1000000}, 0..MaxRepeat,
                       {None, "Decimal"}, {Absent}, {"-"},
                       {"-", "out.bin"}),
             Payloads(MaxLen), BOOLEAN, { {7, 171} }, {DeviceDefaults},
             {"writable", "readonly"}, {"writable"})

Spec == Init /\ [][Next]_vars

\* The transfer plan in breadth: with and without a pre-delay, at two speeds.
InitPlan ==
    InitWith(OptionsOf({0}, {"ActiveLow"}, {8}, {1000000, 500000}, 0..MaxRepeat,
                       {"Raw", "Hexadecimal"}, {Absent, Some(100)}, {"-"}, {"-"}),
             Payloads(MaxLen), {TRUE}, { {7, 171} }, {DeviceDefaults},
             {"writable"}, {"writable"})

SpecPlan == InitPlan /\ [][Next]_vars

\* Start-up in breadth: every bus setting, every kind of input and output.
InitStartup ==
    InitWith(OptionsOf(SpiModes, ChipSelects, {8, 16}, {500000},
                       0..StartupMaxRepeat, {None}, {Absent}, {"-", "in.bin"},
                       {"-", "out.bin"}),
             Payloads(StartupMaxLen), {TRUE}, { {7} }, {DeviceDefaults, DeviceStale},
             {"any"}, {"any"})

SpecStartup == InitStartup /\ [][Next]_vars

\* Rendering in breadth: one iteration, captures over a wide set of bytes.
RenderBytes == {0, 7, 10, 99, 100, 171, 255}

InitRender ==
    InitWith(OptionsOf({0}, {"ActiveLow"}, {8}, {1000000}, {1}, OutputFormats,
                       {Absent}, {"-"}, {"-"}),
             Payloads(RenderMaxLen), {TRUE}, {RenderBytes}, {DeviceDefaults},
             {"any"}, {"any"})

SpecRender == InitRender /\ [][Next]_vars

\* ------------------------------------------------------- shared vocabulary
\* The clock mode (0-3) and the chip-select polarity a mode word stands for.
ClockModeOf(flags) ==
    (IF "SPI_CPHA" \in flags THEN 1 ELSE 0) + (IF "SPI_CPOL" \in flags THEN 2 ELSE 0)

ChipSelectOf(flags) ==
    IF "SPI_NO_CS" \in flags THEN "Disabled"
    ELSE IF "SPI_CS_HIGH" \in flags THEN "ActiveHigh" ELSE "ActiveLow"

\* The output block of one capture: the bytes themselves (Raw), or one token
\* per byte joined by single spaces and ended by a newline.
RECURSIVE Joined(_, _)
Joined(fmt, bytes) ==
    IF bytes = <<>> THEN <<>>
    ELSE IF Len(bytes) = 1 THEN FmtByte(fmt, bytes[1])
    ELSE Joined(fmt, SubSeq(bytes, 1, Len(bytes) - 1)) \o <<32>>
         \o FmtByte(fmt, bytes[Len(bytes)])

Rendering(fmt, bytes) ==
    IF fmt = "Raw" THEN bytes ELSE Joined(fmt, bytes) \o <<10>>

\* The blocks of the first n transfers, one after the other.
RECURSIVE Blocks(_, _)
Blocks(fmt, n) ==
    IF n = 0 THEN <<>> ELSE Blocks(fmt, n - 1) \o Rendering(fmt, bus[n].rx)

Count(op) == Cardinality({ p \in DOMAIN log : log[p].op = op })
Failed(op) == \E p \in DOMAIN log : log[p].op = op /\ ~log[p].ok
IoFailed == Failed("transfer") \/ Failed("write")
FdFailed == \E p \in DOMAIN fdlog : ~fdlog[p].ok
\* A failed write on the descriptor went unreported (handle_ebadf).
FdSwallowed == \E p \in DOMAIN fdlog : fdlog[p].swallowed
Returned == pc \in {"return", "cleanup", "exit"}
\* Everything `output` has accepted: what was delivered, then what is buffered.
Accepted == sink \o obuf
IsPrefix(a, b) == Len(a) <= Len(b) /\ SubSeq(b, 1, Len(a)) = a

\* ----------------------------------------------------------------- claims

\* C1: whenever a transfer is issued, the handle's word width, max speed,
\* clock mode and chip-select polarity equal the requested --bits, --speed,
\* --mode and --chip-select.
C1_SettingsInEffect ==
    \A k \in DOMAIN bus :
        /\ bus[k].settings.bits_per_word = options.bits_per_word
        /\ bus[k].settings.max_speed_hz = options.speed
        /\ ClockModeOf(bus[k].settings.mode) = options.mode
        /\ ChipSelectOf(bus[k].settings.mode) = options.chip_select

\* The calls that open and configure the bus, and what the error returned
\* for each must say: the setting, and the value asked for.
BusSetupOps == {"open_spi", "cfg_bits", "cfg_speed", "cfg_mode", "cfg_cs"}

NamesSetting(op, r) ==
    CASE op = "open_spi"  -> r.msg = "Failed to open spidev {}: {}"
                             /\ r.arg = options.spidev
      [] op = "cfg_bits"  -> r.msg = "Failed to set {} bits per word: {}"
                             /\ r.arg = options.bits_per_word
      [] op = "cfg_speed" -> r.msg = "Failed to max speed to {} Hz: {}"
                             /\ r.arg = options.speed
      [] op = "cfg_mode"  -> r.msg = "Failed to set SPI mode to {}: {}"
                             /\ r.arg = options.mode
      [] op = "cfg_cs"    -> r.msg = "Failed to set chip select mode to {}: {}"
                             /\ r.arg = (CASE options.chip_select = "ActiveLow" -> "active-low"
                                           [] options.chip_select = "ActiveHigh" -> "active-high"
                                           [] options.chip_select = "Disabled" -> "disabled")

\* C2: if opening the bus or one of the four configure calls is rejected,
\* do_main returns an error naming the rejected setting and its value, the
\* rejected call is the last call made (no later configure, no transfer),
\* and the process exits non-zero.
C2_RejectedSetupAborts ==
    \A p \in DOMAIN log :
        (log[p].op \in BusSetupOps /\ ~log[p].ok) =>
            /\ p = Len(log)
            /\ bus = <<>>
            /\ Returned
            /\ ~result.ok
            /\ NamesSetting(log[p].op, result)
            /\ (pc = "exit" => exit_code # 0)

C2_Witness ==
    /\ pc = "exit"
    /\ exit_code = 1
    /\ stderr = [k \in 1..3 |-> [text |-> StderrPieces[k], whole |-> TRUE]]
    /\ Len(log) = 4
    /\ log[4] = Event("cfg_mode", FALSE)
    /\ options.mode = 3

\* C3: a run that reaches the loop and in which no transfer and no write
\* fails (neither a call of do_main nor a write on the descriptor) issues
\* exactly N transfers and leaves exactly the N blocks on the sink, block k
\* rendering exactly the capture of transfer k, and returns Ok with exit
\* code 0.
C3_RepeatBlocks ==
    (pc = "exit" /\ format # None /\ ~IoFailed /\ ~FdFailed) =>
        /\ result = Ok
        /\ exit_code = 0
        /\ Len(bus) = options.repeat
        /\ Count("transfer") = options.repeat
        /\ \A k \in DOMAIN bus : Len(bus[k].rx) = Len(input_data)
        /\ sink = Blocks(format, options.repeat)

C3_Witness ==
    /\ pc = "exit"
    /\ result = Ok
    /\ options.repeat = 2
    /\ format = "Hexadecimal"
    /\ Len(bus) = 2
    /\ bus[1].rx = <<171, 7>>
    /\ bus[2].rx = <<7, 7>>

C3_WitnessEmpty ==
    /\ pc = "exit"
    /\ result = Ok
    /\ options.repeat = 2
    /\ input_data = <<>>
    /\ Len(bus) = 2

C5_WriteFailureAborts ==
    \A p \in DOMAIN fdlog :
        ~fdlog[p].ok =>
            /\ p = Len(fdlog)
            /\ Returned
            /\ result = WriteError
            /\ log[Len(log)] = Event("write", FALSE)
            /\ (pc = "exit" => exit_code # 0)

\* Whether select is released at the end of segment k of a message: between
\* segments cs_change asks for a release, after the last segment the release
\* is the default and cs_change asks to skip it.
SelectChange(plan, k) ==
    IF k = Len(plan) THEN plan[k].cs_change = 0 ELSE plan[k].cs_change # 0

\* Segment k is the real transfer: the whole payload, a receive buffer of the
\* same length, the requested speed, select released after it, no delay.
PayloadSegment(plan, k) ==
    /\ plan[k].tx_buf = input_data
    /\ plan[k].len = Len(input_data)
    /\ plan[k].has_rx
    /\ plan[k].rx_len = Len(input_data)
    /\ plan[k].speed_hz = options.speed
    /\ SelectChange(plan, k)
    /\ plan[k].delay_usecs = 0

\* C6: with a pre-delay every iteration submits, in one transfer_multiple
\* call, two segments: an empty one with cs_change = 0 (select held) and the
\* pre-delay as its delay, then the full payload with an equally long receive
\* buffer, select released at its end and no delay; both at the requested
\* speed. Without a pre-delay the plan is the payload segment alone.
C6_TransferPlan ==
    /\ Len(bus) <= i + 1
    /\ \A k \in DOMAIN bus :
         LET plan == bus[k].plan IN
           IF options.pre_delay # Absent
           THEN /\ bus[k].call = "transfer_multiple"
                /\ Len(plan) = 2
                /\ plan[1].tx_buf = <<>>
                /\ plan[1].len = 0
                /\ plan[1].cs_change = 0
                /\ ~SelectChange(plan, 1)
                /\ plan[1].delay_usecs = options.pre_delay[1]
                /\ plan[1].speed_hz = options.speed
                /\ PayloadSegment(plan, 2)
           ELSE /\ bus[k].call = "transfer"
                /\ Len(plan) = 1
                /\ PayloadSegment(plan, 1)

C6_Witness ==
    /\ options.pre_delay = Some(100)
    /\ options.speed = 500000
    /\ input_data = <<65, 66>>
    /\ Len(bus) = 2
    /\ bus[2].ok

\* C7: output is streamed: when transfer k is issued the blocks of transfers
\* 1..k-1, and nothing else, are on the sink; between two iterations every
\* block of a completed transfer is on the sink; a transfer is never followed
\* directly by another transfer.
C7_Streaming ==
    /\ \A k \in DOMAIN bus :
         /\ bus[k].at = Len(Blocks(format, k - 1))
         /\ SubSeq(sink, 1, bus[k].at) = Blocks(format, k - 1)
    /\ pc = "loop" => (Len(bus) = i /\ sink = Blocks(format, i))
    /\ \A p \in DOMAIN log :
         (log[p].op = "transfer" /\ p < Len(log)) =>
             (log[p].ok /\ log[p + 1].op = "write")

\* The tokens of a line, split at every space (empty where spaces touch each
\* other or an end of the line).
RECURSIVE Split(_)
Split(line) ==
    IF \A p \in DOMAIN line : line[p] # 32 THEN << line >>
    ELSE LET q == CHOOSE p \in DOMAIN line :
                    line[p] = 32 /\ \A r \in 1..(p - 1) : line[r] # 32
         IN << SubSeq(line, 1, q - 1) >> \o Split(SubSeq(line, q + 1, Len(line)))

\* Reading a token back: the value of a hexadecimal digit (upper case only)
\* and of a decimal numeral.
HexValue(c) ==
    IF c \in 48..57 THEN c - 48 ELSE IF c \in 65..70 THEN c - 55 ELSE -1000

IsHexToken(t, b) ==
    /\ Len(t) = 2
    /\ 16 * HexValue(t[1]) + HexValue(t[2]) = b

RECURSIVE DecValue(_)
DecValue(t) ==
    IF t = <<>> THEN 0
    ELSE 10 * DecValue(SubSeq(t, 1, Len(t) - 1)) + (t[Len(t)] - 48)

IsDecToken(t, b) ==
    /\ Len(t) \in 1..3
    /\ \A p \in DOMAIN t : t[p] \in 48..57
    /\ Len(t) > 1 => t[1] # 48
    /\ DecValue(t) = b

\* block is the text rendering of bytes: one newline, at the end, and before
\* it one well-formed token per byte with single spaces between them.
IsTextBlock(fmt, block, bytes) ==
    /\ Len(block) >= 1
    /\ block[Len(block)] = 10
    /\ \A p \in 1..(Len(block) - 1) : block[p] # 10
    /\ LET line == SubSeq(block, 1, Len(block) - 1) IN
         IF bytes = <<>> THEN line = <<>>
         ELSE LET tokens == Split(line) IN
                /\ Len(tokens) = Len(bytes)
                /\ \A k \in DOMAIN tokens :
                     IF fmt = "Hexadecimal" THEN IsHexToken(tokens[k], bytes[k])
                     ELSE IsDecToken(tokens[k], bytes[k])

\* C8: a hexadecimal or decimal block is one token per captured byte (two
\* upper-case hex digits, resp. the decimal value without leading zeros),
\* single spaces between tokens and nowhere else, and one newline at the
\* end; an empty capture gives just the newline. A raw block is the capture.
C8_Rendering ==
    (pc = "exit" /\ format # None /\ result = Ok /\ ~FdFailed) =>
        /\ Len(bus) = 1
        /\ IF format = "Raw" THEN sink = bus[1].rx
           ELSE IsTextBlock(format, sink, bus[1].rx)

C8_Witness ==
    /\ pc = "exit"
    /\ result = Ok
    /\ format = "Decimal"
    /\ bus[1].rx = <<100, 7>>
    /\ sink = <<49, 48, 48, 32, 55, 10>>

C8_WitnessEmpty ==
    /\ pc = "exit"
    /\ result = Ok
    /\ format = "Hexadecimal"
    /\ bus[1].rx = <<>>
    /\ sink = <<10>>

\* The format the run must use: the explicit one, or the one the logged
\* answer of isatty stands for.
IsattyAnswer == log[CHOOSE p \in DOMAIN log : log[p].op = "isatty"].ok

ResolvedOnce ==
    IF options.format # None THEN options.format
    ELSE IF IsattyAnswer THEN "Hexadecimal" ELSE "Raw"

C9_WitnessExplicit ==
    /\ options.format = "Decimal"
    /\ format = "Decimal"
    /\ tty
    /\ i = 1

\* The calls before the loop, in the order claimed.
StartupOrder ==
    << {"open_spi"}, {"cfg_bits"}, {"cfg_speed"}, {"cfg_mode"}, {"cfg_cs"},
       {"open_input", "lock_stdin"}, {"create_output", "lock_stdout"},
       {"read_input"} >>

\* C10: the calls of do_main come in the order open bus, configure bits,
\* speed, mode, chip select, open input, create output, read input, loop.
\* The output file keeps its old content until the bus is open and fully
\* configured and the input is open; it is truncated before the input is
\* read, so a failed read leaves it empty with no transfer issued; the
\* payload is read once, before the first transfer, and every transfer sends
\* exactly what was read.
C10_StartupOrder ==
    /\ \A p \in DOMAIN log :
         IF p <= Len(StartupOrder) THEN log[p].op \in StartupOrder[p]
         ELSE log[p].op \in {"isatty", "transfer", "write"}
    /\ \A p \in DOMAIN log : (p < Len(log) /\ p <= Len(StartupOrder)) => log[p].ok
    /\ outfile # OldContent =>
         /\ Len(log) >= 7
         /\ log[7] = Event("create_output", TRUE)
         /\ spi.open
         /\ spi.settings.bits_per_word = options.bits_per_word
         /\ spi.settings.max_speed_hz = options.speed
    /\ (Failed("open_spi") \/ Failed("cfg_bits") \/ Failed("cfg_speed")
        \/ Failed("cfg_mode") \/ Failed("cfg_cs") \/ Failed("open_input"))
         => outfile = OldContent
    /\ (Len(log) >= 8 /\ options.output # "-") => SubSeq(outfile, 1, Len(sink)) = sink
    /\ Failed("read_input") =>
         /\ bus = <<>>
         /\ sink = <<>>
         /\ options.output # "-" => outfile = <<>>
    /\ Count("read_input") <= 1
    /\ bus # <<>> => (log[8] = Event("read_input", TRUE) /\ tx_buf = input_data)
    /\ \A k \in DOMAIN bus : bus[k].plan[Len(bus[k].plan)].tx_buf = input_data

C10_Witness ==
    /\ pc = "exit"
    /\ options.output = "out.bin"
    /\ options.input = "in.bin"
    /\ Len(log) = 8
    /\ log[8] = Event("read_input", FALSE)
    /\ outfile = <<>>

C10_WitnessConfigFailure ==
    /\ pc = "exit"
    /\ options.output = "out.bin"
    /\ Failed("cfg_cs")
    /\ outfile = OldContent

====
